---- MODULE Spec2Model ----
(***************************************************************************)
(* The useBioLogreen composable (src/src/useBioLogreen.ts) and the API     *)
(* client it calls (src/src/types.ts, lines 41-102), as a state machine.   *)
(* One action per handler or per continuation of an await: the browser     *)
(* runs each of them to its next suspension point without interleaving.    *)
(***************************************************************************)
EXTENDS Integers, Sequences, FiniteSets, TLC

\* ------------------------------------------------------------------ bounds
MaxCalls == 2     \* loginWithFace()/signupWithFace() invocations
MaxStarts == 2    \* start() invocations
MaxInvocations == 3  \* start() and capture function invocations together
MaxPending == 2   \* detectAllFaces() calls awaiting their result at once
MaxFaces == 2     \* detections.length of one detection result

\* ------------------------------------------------------- values of the code
NoCompleter == 0  \* captureCompleter = null
NoHandle == 0     \* detectionInterval = null, stream = null, srcObject = null
Undefined == "undefined"

ErrNoVideo == "Video element reference is not available."
ErrModels == "Failed to load face detection models. Please check the modelPath. Error: load"
ErrCapture == "Failed to capture image from video stream."
ErrUnexpected == "An unexpected error occurred during capture."
ErrUnknownApi == "An unknown API error occurred."
\* messages of the errors the platform throws
ErrNullVideo == "Cannot set properties of null (setting 'srcObject')"
ErrPermission == "Permission denied"
ErrJson == "Unexpected token < in JSON at position 0"
NetworkErrors == {"Failed to fetch"}

StartError(msg) == "Failed to start camera: " \o msg

\* what signupWithFace() may be given as opts?.customFields
CustomFields == {Undefined, "fieldsA"}

\* what response.json() may resolve with: the Auth Result, an error body with
\* a detail field and one without (a body that is no JSON text makes
\* response.json() reject instead)
AuthResult == [user_id |-> 42, is_new_user |-> TRUE]
JsonBodies == {AuthResult, [detail |-> "duplicate face"], [code |-> "rejected"]}

VARIABLES
    videoRef,            \* options.videoRef.value is an element (TRUE) or null
    srcObject,           \* the stream attached to that element
    isLoading, isInitializing, faceDetected, error,
    stream, detectionInterval,
    captureCompleter, captureMode, signupCustomFields,
    timers,              \* the intervals setInterval created and nothing cleared
    tracks,              \* the acquired streams whose tracks were not stopped
    starts,              \* per start() invocation, where it is suspended
    stopped,             \* stop() has returned and start() was not invoked since
    detections,          \* detectAllFaces() calls that have not settled yet
    promises,            \* per loginWithFace()/signupWithFace() call, its promise
    sends                \* the runs of _capturePhoto() suspended in an await

vars == <<videoRef, srcObject, isLoading, isInitializing, faceDetected, error,
          stream, detectionInterval, captureCompleter, captureMode,
          signupCustomFields, timers, tracks, starts, stopped, detections, promises,
          sends>>

sessionVars == <<srcObject, isInitializing, stream, detectionInterval, timers,
                 tracks, starts, stopped>>
armVars == <<captureCompleter, captureMode, signupCustomFields>>

\* the caller's invocations so far that are counted against the bounds
Invocations == Len(starts) + Len(promises)

Init ==
    /\ videoRef = FALSE
    /\ srcObject = NoHandle
    /\ isLoading = FALSE
    /\ isInitializing = FALSE
    /\ faceDetected = FALSE
    /\ error = "null"
    /\ stream = NoHandle
    /\ detectionInterval = NoHandle
    /\ captureCompleter = NoCompleter
    /\ captureMode = "login"
    /\ signupCustomFields = Undefined
    /\ timers = {}
    /\ tracks = {}
    /\ starts = <<>>
    /\ stopped = FALSE
    /\ detections = 0
    /\ promises = <<>>
    /\ sends = {}

\* ------------------------------------------------------------- environment
\* The component mounts or removes the <video> element the ref points to; a
\* newly mounted element has no stream attached.
videoRefChanges ==
    /\ videoRef' = ~videoRef
    /\ srcObject' = IF videoRef THEN srcObject ELSE NoHandle
    /\ UNCHANGED <<isLoading, isInitializing, faceDetected, error, stream,
                   detectionInterval, timers, tracks, starts, stopped, detections,
                   promises, sends>>
    /\ UNCHANGED armVars

\* ------------------------------------------------------------------ start()
\* start() up to its first await, loadModels().
start ==
    /\ Len(starts) < MaxStarts
    /\ Invocations < MaxInvocations
    /\ IF ~videoRef
         THEN /\ error' = ErrNoVideo
              /\ UNCHANGED <<isInitializing, starts>>
         ELSE /\ isInitializing' = TRUE
              /\ error' = "null"
              /\ starts' = Append(starts, "loadModels")
    /\ stopped' = FALSE
    /\ UNCHANGED <<videoRef, srcObject, isLoading, faceDetected, stream,
                   detectionInterval, timers, tracks, detections, promises, sends>>
    /\ UNCHANGED armVars

\* loadFromUri resolved: start() goes on to await getUserMedia().
loadModelsResolves(i) ==
    /\ starts[i] = "loadModels"
    /\ starts' = [starts EXCEPT ![i] = "getUserMedia"]
    /\ UNCHANGED <<videoRef, srcObject, isLoading, isInitializing, faceDetected,
                   error, stream, detectionInterval, timers, tracks, stopped,
                   detections, promises, sends>>
    /\ UNCHANGED armVars

\* loadFromUri rejected: loadModels() rethrows, start() catches.
loadModelsRejects(i) ==
    /\ starts[i] = "loadModels"
    /\ starts' = [starts EXCEPT ![i] = "done"]
    /\ error' = StartError(ErrModels)
    /\ isInitializing' = FALSE
    /\ UNCHANGED <<videoRef, srcObject, isLoading, faceDetected, stream,
                   detectionInterval, timers, tracks, stopped, detections, promises,
                   sends>>
    /\ UNCHANGED armVars

\* getUserMedia resolved with a new stream, numbered by the start() that asked.
getUserMediaResolves(i) ==
    /\ starts[i] = "getUserMedia"
    /\ starts' = [starts EXCEPT ![i] = "done"]
    /\ stream' = i
    /\ tracks' = tracks \cup {i}
    /\ isInitializing' = FALSE
    /\ IF videoRef
         THEN /\ srcObject' = i
              /\ detectionInterval' = i
              /\ timers' = timers \cup {i}
              /\ UNCHANGED error
         ELSE /\ error' = StartError(ErrNullVideo)
              /\ UNCHANGED <<srcObject, detectionInterval, timers>>
    /\ UNCHANGED <<videoRef, isLoading, faceDetected, stopped, detections,
                   promises, sends>>
    /\ UNCHANGED armVars

\* the catch block without the finally block
getUserMediaRejectsKeepingInitializing(i) ==
    /\ starts[i] = "getUserMedia"
    /\ starts' = [starts EXCEPT ![i] = "done"]
    /\ error' = StartError(ErrPermission)
    /\ UNCHANGED <<videoRef, srcObject, isLoading, isInitializing, faceDetected,
                   stream, detectionInterval, timers, tracks, stopped, detections,
                   promises, sends>>
    /\ UNCHANGED armVars

\* navigator.mediaDevices.getUserMedia() rejected: start() catches.
getUserMediaRejects(i) ==
    /\ starts[i] = "getUserMedia"
    /\ starts' = [starts EXCEPT ![i] = "done"]
    /\ error' = StartError(ErrPermission)
    /\ isInitializing' = FALSE
    /\ UNCHANGED <<videoRef, srcObject, isLoading, faceDetected, stream,
                   detectionInterval, timers, tracks, stopped, detections, promises,
                   sends>>
    /\ UNCHANGED armVars

\* ------------------------------------------------------------------- stop()
\* stop() that also gives up the send in flight and clears the busy flag
stopAbortingSend ==
    /\ timers' = IF detectionInterval # NoHandle
                   THEN timers \ {detectionInterval} ELSE timers
    /\ detectionInterval' = NoHandle
    /\ tracks' = IF stream # NoHandle THEN tracks \ {stream} ELSE tracks
    /\ stream' = NoHandle
    /\ srcObject' = IF videoRef THEN NoHandle ELSE srcObject
    /\ faceDetected' = FALSE
    /\ stopped' = TRUE
    /\ isLoading' = FALSE
    /\ sends' = {}
    /\ UNCHANGED <<videoRef, isInitializing, error, starts, detections, promises>>
    /\ UNCHANGED armVars

\* the stream released in an else branch of the interval's test
stopOneResource ==
    /\ IF detectionInterval # NoHandle
         THEN /\ timers' = timers \ {detectionInterval}
              /\ detectionInterval' = NoHandle
              /\ UNCHANGED <<tracks, stream>>
         ELSE /\ tracks' = IF stream # NoHandle THEN tracks \ {stream} ELSE tracks
              /\ stream' = NoHandle
              /\ UNCHANGED <<timers, detectionInterval>>
    /\ srcObject' = IF videoRef THEN NoHandle ELSE srcObject
    /\ faceDetected' = FALSE
    /\ stopped' = TRUE
    /\ UNCHANGED <<videoRef, isLoading, isInitializing, error, starts,
                   detections, promises, sends>>
    /\ UNCHANGED armVars

stop ==
    /\ timers' = IF detectionInterval # NoHandle
                   THEN timers \ {detectionInterval} ELSE timers
    /\ detectionInterval' = NoHandle
    /\ tracks' = IF stream # NoHandle THEN tracks \ {stream} ELSE tracks
    /\ stream' = NoHandle
    /\ srcObject' = IF videoRef THEN NoHandle ELSE srcObject
    /\ faceDetected' = FALSE
    /\ stopped' = TRUE
    /\ UNCHANGED <<videoRef, isLoading, isInitializing, error, starts,
                   detections, promises, sends>>
    /\ UNCHANGED armVars

\* ------------------------------------- loginWithFace() / signupWithFace()
\* The promise a call returns, with the call's arguments (kept to tell later
\* whose mode and fields a send carries) and the number of times its resolve
\* or reject was called.
NewPromise(mode, fields) ==
    [status |-> "pending", value |-> [pending |-> TRUE], settles |-> 0,
     mode |-> mode, fields |-> fields]

\* a slot that keeps the completer it already holds
ArmIfEmpty(armed, new) == IF armed # NoCompleter THEN armed ELSE new

\* The promise executor stores the completer in the single slot.
Arm(armed, new) == new

\* loginWithFace() without its assignment to captureMode
loginWithFaceKeepingMode ==
    /\ Len(promises) < MaxCalls
    /\ Invocations < MaxInvocations
    /\ signupCustomFields' = Undefined
    /\ promises' = Append(promises, NewPromise("login", Undefined))
    /\ captureCompleter' = Arm(captureCompleter, Len(promises) + 1)
    /\ UNCHANGED <<videoRef, isLoading, faceDetected, error, detections, sends,
                   captureMode>>
    /\ UNCHANGED sessionVars

loginWithFace ==
    /\ Len(promises) < MaxCalls
    /\ Invocations < MaxInvocations
    /\ captureMode' = "login"
    /\ signupCustomFields' = Undefined
    /\ promises' = Append(promises, NewPromise("login", Undefined))
    /\ captureCompleter' = Arm(captureCompleter, Len(promises) + 1)
    /\ UNCHANGED <<videoRef, isLoading, faceDetected, error, detections, sends>>
    /\ UNCHANGED sessionVars

signupWithFace(customFields) ==
    /\ Len(promises) < MaxCalls
    /\ Invocations < MaxInvocations
    /\ captureMode' = "signup"
    /\ signupCustomFields' = customFields
    /\ promises' = Append(promises, NewPromise("signup", customFields))
    /\ captureCompleter' = Arm(captureCompleter, Len(promises) + 1)
    /\ UNCHANGED <<videoRef, isLoading, faceDetected, error, detections, sends>>
    /\ UNCHANGED sessionVars

\* ----------------------------------------------------------- the API client
\* signupWithFaceApi / loginWithFaceApi: the endpoint and the payload posted.
\* custom_fields is in the payload only for a signup given truthy fields.
Request(mode, fields, imageBase64) ==
    IF mode = "login"
      THEN [endpoint |-> "/auth/login-face", image_base64 |-> imageBase64,
            custom_fields |-> Undefined]
      ELSE [endpoint |-> "/auth/signup-face", image_base64 |-> imageBase64,
            custom_fields |-> fields]

\* post(), not ok: responseData.detail || 'An unknown API error occurred.'
ApiErrorMessage(responseData) ==
    IF "detail" \in DOMAIN responseData /\ responseData.detail # ""
      THEN responseData.detail
      ELSE ErrUnknownApi

\* ------------------------------------------------------------ _capturePhoto
\* e.message || 'An unexpected error occurred during capture.'
ErrorChannel(message) == IF message = "" THEN ErrUnexpected ELSE message

\* the slot left as it is
DisarmForgotten(armed) == armed

\* captureCompleter = null, after the local copy was taken
Disarm(armed) == NoCompleter

\* the shared slot read again when the send is over
CompleterFromSlot(send, armed) == armed

\* the completer a run of _capturePhoto settles: its local copy
Completer(send, armed) == send.completer

\* completer.resolve / completer.reject: a promise keeps its first settlement
Settle(ps, p, status, value) ==
    IF p = NoCompleter THEN ps
    ELSE [ps EXCEPT ![p] = [@ EXCEPT
             !.status = IF @ = "pending" THEN status ELSE @,
             !.value = IF ps[p].status = "pending" THEN value ELSE @,
             !.settles = @ + 1]]

\* the catch block without the finally block
FailKeepingBusy(send, message) ==
    /\ error' = ErrorChannel(message)
    /\ promises' = Settle(promises, Completer(send, captureCompleter),
                          "rejected", [message |-> message])
    /\ isLoading' = isLoading
    /\ sends' = sends \ {send}

\* the catch block and the finally block
Fail(send, message) ==
    /\ error' = ErrorChannel(message)
    /\ promises' = Settle(promises, Completer(send, captureCompleter),
                          "rejected", [message |-> message])
    /\ isLoading' = FALSE
    /\ sends' = sends \ {send}

\* completer.resolve(response) that also clears the error channel
SucceedClearingError(send, response) ==
    /\ promises' = Settle(promises, Completer(send, captureCompleter),
                          "resolved", response)
    /\ isLoading' = FALSE
    /\ sends' = sends \ {send}
    /\ error' = "null"

\* completer.resolve(response) with the busy flag cleared in the catch block
\* only
SucceedKeepingBusy(send, response) ==
    /\ promises' = Settle(promises, Completer(send, captureCompleter),
                          "resolved", response)
    /\ isLoading' = isLoading
    /\ sends' = sends \ {send}
    /\ UNCHANGED error

\* completer.resolve(response) and the finally block
Succeed(send, response) ==
    /\ promises' = Settle(promises, Completer(send, captureCompleter),
                          "resolved", response)
    /\ isLoading' = FALSE
    /\ sends' = sends \ {send}
    /\ UNCHANGED error

\* _capturePhoto() up to its first await: the guard, the busy flag, the local
\* copy, the disarming, the frame encoding and the call of the API client.
_capturePhoto(imageBase64) ==
    IF ~videoRef \/ captureCompleter = NoCompleter
      THEN UNCHANGED <<isLoading, error, captureCompleter, promises, sends>>
      ELSE
        LET send == [completer |-> captureCompleter, pc |-> "fetch", ok |-> FALSE,
                     request |-> Request(captureMode, signupCustomFields, imageBase64)]
        IN  /\ captureCompleter' = Disarm(captureCompleter)
            /\ IF imageBase64 = ""
                 THEN /\ error' = ErrorChannel(ErrCapture)
                      /\ promises' = Settle(promises, Completer(send, captureCompleter'),
                                            "rejected", [message |-> ErrCapture])
                      /\ isLoading' = FALSE
                      /\ UNCHANGED sends
                 ELSE /\ isLoading' = TRUE
                      /\ sends' = sends \cup {send}
                      /\ UNCHANGED <<error, promises>>

\* ------------------------------------------------------------- runDetection
\* the guard without its face conjunct
QualifiesWithoutFace(armed, faceIsPresent, loading) ==
    armed # NoCompleter /\ ~loading

\* the guard without its busy-flag conjunct
QualifiesIgnoringBusy(armed, faceIsPresent, loading) ==
    armed # NoCompleter /\ faceIsPresent

\* if (captureCompleter && faceIsPresent && !isLoading.value)
Qualifies(armed, faceIsPresent, loading) ==
    armed # NoCompleter /\ faceIsPresent /\ ~loading

\* a comparison that misses a single detection
FaceIsPresentAboveOne(n) == n > 1

\* const faceIsPresent = detections.length > 0
FaceIsPresent(n) == n > 0

\* what canvas.toDataURL('image/jpeg').split(',')[1] may give: nothing for a
\* frame without pixels, else the encoded frame
Images == {"", "img"}

\* An interval fires: runDetection() up to its await of detectAllFaces().
runDetection ==
    /\ timers # {}
    /\ videoRef => detections < MaxPending
    /\ detections' = IF videoRef THEN detections + 1 ELSE detections
    /\ UNCHANGED <<videoRef, isLoading, faceDetected, error, promises, sends>>
    /\ UNCHANGED sessionVars
    /\ UNCHANGED armVars

\* detectAllFaces() resolved with n detections: the rest of runDetection(),
\* and with it _capturePhoto() up to its first await.
detectAllFacesResolves(n, imageBase64) ==
    /\ detections > 0
    /\ detections' = detections - 1
    /\ faceDetected' = FaceIsPresent(n)
    /\ IF Qualifies(captureCompleter, FaceIsPresent(n), isLoading)
         THEN _capturePhoto(imageBase64)
         ELSE UNCHANGED <<isLoading, error, captureCompleter, promises, sends>>
    /\ UNCHANGED <<videoRef, captureMode, signupCustomFields>>
    /\ UNCHANGED sessionVars

\* detectAllFaces() rejected: runDetection() ends with that rejection.
detectAllFacesRejects ==
    /\ detections > 0
    /\ detections' = detections - 1
    /\ UNCHANGED <<videoRef, isLoading, faceDetected, error, promises, sends>>
    /\ UNCHANGED sessionVars
    /\ UNCHANGED armVars

\* ------------------------------------------------- the awaits inside post()
\* fetch() resolved with a response whose ok flag is `ok`.
fetchResolves(send, ok) ==
    /\ send.pc = "fetch"
    /\ sends' = (sends \ {send}) \cup {[send EXCEPT !.pc = "json", !.ok = ok]}
    /\ UNCHANGED <<videoRef, isLoading, faceDetected, error, detections, promises>>
    /\ UNCHANGED sessionVars
    /\ UNCHANGED armVars

\* fetch() rejected (network failure) with an error carrying `message`.
fetchRejects(send, message) ==
    /\ send.pc = "fetch"
    /\ Fail(send, message)
    /\ UNCHANGED <<videoRef, faceDetected, detections>>
    /\ UNCHANGED sessionVars
    /\ UNCHANGED armVars

\* response.json() resolved with the parsed body: post() throws or returns.
jsonResolves(send, responseData) ==
    /\ send.pc = "json"
    /\ IF ~send.ok
         THEN Fail(send, ApiErrorMessage(responseData))
         ELSE Succeed(send, responseData)
    /\ UNCHANGED <<videoRef, faceDetected, detections>>
    /\ UNCHANGED sessionVars
    /\ UNCHANGED armVars

\* response.json() rejected: the body is no JSON text.
jsonRejects(send) ==
    /\ send.pc = "json"
    /\ Fail(send, ErrJson)
    /\ UNCHANGED <<videoRef, faceDetected, detections>>
    /\ UNCHANGED sessionVars
    /\ UNCHANGED armVars

\* ------------------------------------------------------------ specification
Next ==
    \/ videoRefChanges
    \/ start
    \/ \E i \in DOMAIN starts : loadModelsResolves(i)
    \/ \E i \in DOMAIN starts : loadModelsRejects(i)
    \/ \E i \in DOMAIN starts : getUserMediaResolves(i)
    \/ \E i \in DOMAIN starts : getUserMediaRejects(i)
    \/ stop
    \/ loginWithFace
    \/ \E customFields \in CustomFields : signupWithFace(customFields)
    \/ runDetection
    \/ \E n \in 0..MaxFaces, imageBase64 \in Images :
          detectAllFacesResolves(n, imageBase64)
    \/ detectAllFacesRejects
    \/ \E send \in sends, ok \in BOOLEAN : fetchResolves(send, ok)
    \/ \E send \in sends, message \in NetworkErrors : fetchRejects(send, message)
    \/ \E send \in sends, responseData \in JsonBodies : jsonResolves(send, responseData)
    \/ \E send \in sends : jsonRejects(send)

Spec == Init /\ [][Next]_vars

\* A live interval keeps firing runDetection() every 200 ms; the detector
\* keeps answering and, as the claims about settlement assume, finds a face
\* again and again; the Auth Service answers every request.
Fairness ==
    /\ WF_vars(runDetection)
    /\ SF_vars(\E n \in 1..MaxFaces, imageBase64 \in Images :
                  detectAllFacesResolves(n, imageBase64))
    /\ WF_vars(\E send \in sends :
                  \/ \E ok \in BOOLEAN : fetchResolves(send, ok)
                  \/ \E message \in NetworkErrors : fetchRejects(send, message))
    /\ WF_vars(\E send \in sends :
                  \/ \E responseData \in JsonBodies : jsonResolves(send, responseData)
                  \/ jsonRejects(send))

FairSpec == Spec /\ Fairness

\* ---------------------------------------------------------------- notions
Promises == DOMAIN promises
Settled(p) == promises[p].status # "pending"
Armed(p) == captureCompleter = p
InFlight(p) == \E send \in sends : send.completer = p
\* the completers the suspended runs of _capturePhoto() hold
Serving(ss) == {send.completer : send \in ss}
\* a pending promise that no slot and no send holds any more
Orphaned(p) == /\ p \in Promises
               /\ ~Settled(p)
               /\ ~Armed(p)
               /\ ~InFlight(p)
\* a tick's _capturePhoto() ran past its guard in this step: it took the
\* armed completer out of the slot (nothing else empties the slot)
CaptureStarts == captureCompleter # NoCompleter /\ captureCompleter' = NoCompleter

\* an interval is live and the video element it reads is there
PollingActive == timers # {} /\ videoRef

\* --------------------------------------------------------------------- C1
\* C1: at most one capture-and-send is in flight at any time, and while one
\* is in flight no step (in particular no poll tick that finds a face, also
\* with a new request armed) starts another capture.
C1_OneSendAtATime ==
    /\ [](Cardinality(sends) <= 1)
    /\ [][sends # {} => /\ ~CaptureStarts
                        /\ Serving(sends') \subseteq Serving(sends)]_vars

\* a send is in flight, a new request was armed meanwhile, two detections
\* are pending at once and one of them can now report a face
C1_Witness ==
    /\ sends # {}
    /\ captureCompleter # NoCompleter
    /\ detections >= 2
    /\ ENABLED detectAllFacesResolves(1, "img")

\* --------------------------------------------------------------------- C2
\* C2 as claimed: every promise a call returned is eventually settled, as
\* long as polling stays active (the detector and the Auth Service answer
\* under the fairness of FairSpec).
C2_EveryPromiseSettled ==
    \A p \in 1..MaxCalls :
        [](p \in Promises => <>(p \in Promises /\ (Settled(p) \/ ~PollingActive)))

\* C2: every armed request is eventually captured (its send is in flight or
\* its promise is settled), unless a later call replaces it while it is still
\* armed or polling does not stay active; and the promise of every request
\* whose send is in flight is eventually settled.
C2_ArmedEventuallySettled ==
    \A p \in 1..MaxCalls :
        /\ Armed(p) ~> \/ InFlight(p)
                       \/ p \in Promises /\ Settled(p)
                       \/ Orphaned(p)
                       \/ ~PollingActive
        /\ InFlight(p) ~> (p \in Promises /\ Settled(p))

\* both outcomes: one caller's promise resolved, another's rejected
C2_Witness ==
    \E p, q \in Promises :
        promises[p].status = "resolved" /\ promises[q].status = "rejected"

\* --------------------------------------------------------------------- C3
\* a send that is in flight before the step and over after it
Finishes(send) == send \in sends /\ send.completer \notin Serving(sends')

\* C3: no promise has its resolve/reject called more than once; the slot never
\* holds the completer of a send in flight and no two sends serve the same
\* promise; every capture empties the slot in the step that starts it and
\* every capture-and-send that ends settles the one promise it disarmed and
\* no other.
C3_SettledOnceByItsSend ==
    /\ [](\A p \in Promises : promises[p].settles <= 1)
    /\ [](\A send \in sends : /\ ~Armed(send.completer)
                              /\ promises[send.completer].settles = 0
                              /\ \A other \in sends :
                                    other.completer = send.completer => other = send)
    /\ [][\A send \in sends' : send.completer \notin Serving(sends) =>
              captureCompleter = send.completer /\ captureCompleter' = NoCompleter]_vars
    /\ [][\A send \in sends : Finishes(send) =>
              \A p \in Promises :
                 promises'[p].settles =
                    promises[p].settles + (IF p = send.completer THEN 1 ELSE 0)]_vars
    /\ [][\A p \in Promises : promises'[p].settles # promises[p].settles =>
              \/ \E send \in sends : Finishes(send) /\ send.completer = p
              \/ Armed(p) /\ captureCompleter' = NoCompleter]_vars

\* one promise settled by its send while the send of a later request is
\* in flight
C3_Witness ==
    \E p \in Promises, send \in sends :
        /\ promises[p].settles = 1
        /\ send.completer # p

\* --------------------------------------------------------------------- C4
\* what the call behind promise p asks the Auth Service for
Asked(p) ==
    [endpoint |-> IF promises[p].mode = "login"
                    THEN "/auth/login-face" ELSE "/auth/signup-face",
     custom_fields |-> IF promises[p].mode = "login"
                         THEN Undefined ELSE promises[p].fields]

\* C4: a send posts to the endpoint, and with the custom fields, of the call
\* whose promise it settles (none for a login), whatever was armed before or
\* after; the armed request is the latest call and the mode and fields held
\* for it are that call's.
C4_SendCarriesItsOwnRequest ==
    /\ \A send \in sends :
          /\ send.request.endpoint = Asked(send.completer).endpoint
          /\ send.request.custom_fields = Asked(send.completer).custom_fields
    /\ captureCompleter # NoCompleter =>
          /\ captureCompleter = Len(promises)
          /\ captureMode = promises[captureCompleter].mode
          /\ signupCustomFields = promises[captureCompleter].fields

\* a signup with fields is being sent while a login has been armed since
C4_Witness ==
    \E send \in sends :
        /\ send.request.endpoint = "/auth/signup-face"
        /\ send.request.custom_fields # Undefined
        /\ captureCompleter # NoCompleter
        /\ captureMode = "login"

\* --------------------------------------------------------------------- C5
\* C5: a call arms its own promise; a call made while an earlier request is
\* still armed leaves that request's promise orphaned; an orphaned promise
\* stays orphaned, so it is never resolved or rejected; a send serves the
\* request that was armed when it started.
C5_ReplacedNeverSettled ==
    /\ [][Len(promises') > Len(promises) =>
              /\ captureCompleter' = Len(promises')
              /\ \A p \in Promises : Armed(p) => Orphaned(p)']_vars
    /\ [][\A p \in Promises : Orphaned(p) => Orphaned(p)']_vars
    /\ [][\A send \in sends' : send.completer \notin Serving(sends) =>
              Armed(send.completer)]_vars

\* the earlier request was replaced and is still pending after the newer
\* caller's promise has been settled
C5_Witness ==
    \E p, q \in Promises : p < q /\ Orphaned(p) /\ Settled(q)

\* --------------------------------------------------------------------- C6
\* C6 as claimed: once a request is armed while the send of an earlier
\* request is in flight, the earlier caller's promise is not settled.
C6_EarlierNeverSettled ==
    [][\A send \in sends :
          captureCompleter # NoCompleter =>
             promises'[send.completer].status = "pending"]_vars

\* C6: when a request has been armed while the send of an earlier request is
\* in flight, the end of that send still settles the earlier caller's promise,
\* once, and leaves the newer request armed and its promise pending.
C6_EarlierSettledByItsSend ==
    [][\A send \in sends :
          captureCompleter # NoCompleter /\ Finishes(send) =>
             /\ promises[send.completer].status = "pending"
             /\ promises'[send.completer].status # "pending"
             /\ promises'[send.completer].settles = 1
             /\ captureCompleter' = captureCompleter
             /\ promises'[captureCompleter] = promises[captureCompleter]]_vars

\* the Auth Service has answered a send and the body is being read while a
\* newer request is armed
C6_Witness ==
    \E send \in sends :
        /\ send.pc = "json"
        /\ captureCompleter # NoCompleter
        /\ captureCompleter # send.completer
        /\ ENABLED jsonResolves(send, AuthResult)

\* --------------------------------------------------------------------- C7
\* C7: a poll tick whose detection reports no face sets faceDetected to false
\* and changes neither the armed request, its mode and fields, the busy flag,
\* the sends, the promises nor the error channel; the slot is emptied only by
\* a tick that found a face while the busy flag was false.
C7_NoFaceTickIsInert ==
    /\ [][\A imageBase64 \in Images :
             detectAllFacesResolves(0, imageBase64) =>
                /\ faceDetected' = FALSE
                /\ UNCHANGED <<captureCompleter, captureMode, signupCustomFields,
                               isLoading, sends, promises, error>>]_vars
    /\ [][CaptureStarts => faceDetected' /\ ~isLoading]_vars

\* a request is armed, nothing is being sent, the last tick saw a face and a
\* pending detection can now report none
C7_Witness ==
    /\ captureCompleter # NoCompleter
    /\ ~isLoading
    /\ videoRef
    /\ faceDetected
    /\ ENABLED detectAllFacesResolves(0, "img")

\* --------------------------------------------------------------------- C8
\* a 2xx response whose body parsed as r resolves the send's promise with r
ResolvesWithBody ==
    [][\A send \in sends, r \in JsonBodies :
          jsonResolves(send, r) /\ send.ok =>
             /\ promises'[send.completer].status = "resolved"
             /\ promises'[send.completer].value = r]_vars

\* C8 as claimed: a tick that finds a face while a request is armed and the
\* busy flag is false starts the capture-and-send, and a success body r
\* resolves the caller's promise with r.
C8_EveryQualifyingTickCaptures ==
    /\ [][\A n \in 1..MaxFaces, imageBase64 \in Images :
             /\ detectAllFacesResolves(n, imageBase64)
             /\ captureCompleter # NoCompleter
             /\ ~isLoading
             => CaptureStarts]_vars
    /\ ResolvesWithBody

\* C8: a tick that finds a face while a request is armed, the busy flag is
\* false and the video element is still there starts the capture-and-send
\* for the armed request (it is in flight after the step unless the frame
\* could not be encoded), and a success body r resolves the caller's promise
\* with r.
C8_QualifyingTickCaptures ==
    /\ [][\A n \in 1..MaxFaces, imageBase64 \in Images, p \in Promises :
             /\ detectAllFacesResolves(n, imageBase64)
             /\ Armed(p)
             /\ ~isLoading
             /\ videoRef
             => /\ CaptureStarts
                /\ IF imageBase64 = ""
                     THEN promises'[p].status = "rejected"
                     ELSE isLoading' /\ p \in Serving(sends')]_vars
    /\ ResolvesWithBody

\* a caller's promise resolved with the body the Auth Service sent
C8_Witness ==
    \E p \in Promises :
        promises[p].status = "resolved" /\ promises[p].value = AuthResult

\* --------------------------------------------------------------------- C9
\* promise p is rejected in this step with `message`, also on the error channel
RejectsWith(p, message) ==
    /\ promises[p].status = "pending"
    /\ promises'[p].status = "rejected"
    /\ promises'[p].value.message = message
    /\ error' = message

\* C9 as claimed: a capture-and-send that fails rejects the disarmed caller's
\* promise and puts the rejection's message on the error channel; after a
\* response that is not ok the message is the body's detail if it has one and
\* the generic API error message otherwise.
C9_FailureMessage ==
    /\ [][\A p \in Promises :
             promises'[p].status = "rejected" /\ promises[p].status = "pending" =>
                RejectsWith(p, promises'[p].value.message)]_vars
    /\ [][\A p \in Promises :
             Armed(p) /\ CaptureStarts /\ Serving(sends') = Serving(sends) =>
                RejectsWith(p, ErrCapture)]_vars
    /\ [][\A send \in sends :
             /\ (\E m \in NetworkErrors : fetchRejects(send, m)) =>
                   \E m \in NetworkErrors : RejectsWith(send.completer, m)
             /\ \A r \in JsonBodies :
                   jsonResolves(send, r) /\ ~send.ok =>
                      RejectsWith(send.completer,
                                  IF "detail" \in DOMAIN r THEN r.detail
                                                           ELSE ErrUnknownApi)
             /\ jsonRejects(send) /\ ~send.ok =>
                   RejectsWith(send.completer, ErrUnknownApi)]_vars

\* the part of C9 that does not depend on the body being JSON
C9_RejectedWithChannelMessage ==
    [][\A p \in Promises :
          promises'[p].status = "rejected" /\ promises[p].status = "pending" =>
             RejectsWith(p, promises'[p].value.message)]_vars

\* -------------------------------------------------------------------- C10
\* C10: isLoading is true exactly while a send is in flight, and it changes
\* only in a step that starts a capture or ends a send.
C10_BusyIffSending ==
    /\ [](isLoading <=> sends # {})
    /\ [][isLoading' # isLoading =>
             \/ CaptureStarts
             \/ \E send \in sends : Finishes(send)]_vars

\* a send failed after the Auth Service was called and the flag is false again
C10_Witness ==
    /\ ~isLoading
    /\ \E p \in Promises :
          /\ promises[p].status = "rejected"
          /\ promises[p].value.message \in NetworkErrors

\* -------------------------------------------------------------------- C11
\* a capture-and-send has completed before request p
AfterCompleted(p) == \E q \in Promises : q < p /\ Settled(q)

\* C11: every capture-and-send that ends, resolved or rejected, leaves the
\* busy flag false and no send in flight; and a request armed after a
\* capture-and-send has completed is captured by a later tick and then
\* settled, without start() being called again, unless a later call replaces
\* it while armed or polling does not stay active.
C11_UsableAfterCompletion ==
    /\ [][\A send \in sends : Finishes(send) => ~isLoading' /\ sends' = {}]_vars
    /\ \A p \in 1..MaxCalls :
          /\ (Armed(p) /\ AfterCompleted(p)) ~> \/ InFlight(p)
                                                \/ p \in Promises /\ Settled(p)
                                                \/ Orphaned(p)
                                                \/ ~PollingActive
          /\ (InFlight(p) /\ AfterCompleted(p)) ~> (p \in Promises /\ Settled(p))

\* start() ran once only; the first request's send failed and the request
\* made after it was captured and resolved
C11_Witness ==
    /\ Len(starts) = 1
    /\ \E p, q \in Promises :
          /\ q < p
          /\ promises[q].status = "rejected"
          /\ promises[q].value.message \in NetworkErrors
          /\ promises[p].status = "resolved"

\* -------------------------------------------------------------------- C12
\* calling stop() in this state leaves every variable as it is
StopChangesNothing == ENABLED (stop /\ UNCHANGED vars)

\* C12: stop() can be called in every state, before any start() too; it
\* leaves the error channel as it was and faceDetected false, and in the
\* state it leaves a second stop() changes nothing.
C12_StopIdempotent ==
    /\ [](ENABLED stop)
    /\ [][stop => /\ ~faceDetected'
                  /\ error' = error
                  /\ StopChangesNothing']_vars

\* the only start() succeeded (no failure message) and its interval and its
\* stream are gone: stop() has released them, and stop() is enabled again
C12_Witness ==
    /\ starts = <<"done">>
    /\ error = "null"
    /\ promises = <<>>
    /\ timers = {} /\ tracks = {}
    /\ detectionInterval = NoHandle /\ stream = NoHandle
    /\ ~faceDetected
    /\ ENABLED stop

\* -------------------------------------------------------------------- C13
\* no interval of this coordinator is scheduled, no stream it acquired has
\* live tracks and none is attached to a video element
Released == timers = {} /\ tracks = {} /\ srcObject = NoHandle

\* C13 as claimed: in every state after stop() has returned and until start()
\* is next invoked, all the session's resources are released, whatever
\* start() and stop() calls came before.
C13_StoppedMeansReleased == stopped => Released

\* two start() calls overlapped and both have finished; stop() has returned
\* and holds no handle, yet the interval and the stream of the first start()
\* are live
C13_Witness ==
    /\ stopped
    /\ starts = <<"done", "done">>
    /\ detectionInterval = NoHandle /\ stream = NoHandle
    /\ 1 \in timers /\ 1 \in tracks

\* -------------------------------------------------------------------- C14
\* C14: stop() leaves the busy flag, the armed slot, the capture mode and
\* fields, the error channel, the promises and the sends in flight as they
\* are; and a send that ends after stop() has returned settles its caller's
\* promise, once, resolving it with the body of a response that is ok.
C14_StopLeavesCaptureAlone ==
    /\ [][stop => UNCHANGED <<isLoading, captureCompleter, captureMode,
                              signupCustomFields, error, promises, sends>>]_vars
    /\ [][\A send \in sends : stopped /\ Finishes(send) =>
              /\ promises'[send.completer].status # "pending"
              /\ promises'[send.completer].settles = 1]_vars
    /\ [][\A send \in sends, r \in JsonBodies :
              stopped /\ send.ok /\ jsonResolves(send, r) =>
                 /\ promises'[send.completer].status = "resolved"
                 /\ promises'[send.completer].value = r]_vars

\* a send is in flight with the busy flag true, another request is armed, a
\* failure message is on the error channel, and stop() has an interval and a
\* stream to release
C14_Witness ==
    /\ sends # {} /\ isLoading
    /\ captureCompleter # NoCompleter
    /\ error # "null"
    /\ detectionInterval # NoHandle /\ stream # NoHandle
    /\ ENABLED stop

\* -------------------------------------------------------------------- C15
\* start() number i fails in this step, at loadModels() or at getUserMedia()
SetupFails(i) == loadModelsRejects(i) \/ getUserMediaRejects(i)

\* C15: when loadModels() or getUserMedia() fails, start() ends there (it
\* catches the error), the error channel holds a message, isInitializing is
\* false, and that start() has scheduled no interval and holds no stream:
\* the handles are what they were and none carries its number.
C15_FailedStartIsStopped ==
    [][\A i \in DOMAIN starts : SetupFails(i) =>
          /\ starts'[i] = "done"
          /\ error' # "null"
          /\ error' \in {StartError(ErrModels), StartError(ErrPermission)}
          /\ ~isInitializing'
          /\ i \notin timers' /\ i \notin tracks'
          /\ detectionInterval' # i /\ stream' # i /\ srcObject' # i
          /\ UNCHANGED <<detectionInterval, stream, timers, tracks>>]_vars

\* the only start() has ended with the camera refused: the message is on the
\* error channel, nothing is initializing, no interval and no stream exist
C15_Witness ==
    /\ starts = <<"done">>
    /\ error = StartError(ErrPermission)
    /\ ~isInitializing
    /\ timers = {} /\ tracks = {}
    /\ detectionInterval = NoHandle /\ stream = NoHandle

\* -------------------------------------------------------------------- C16
\* a start() is between its check of the video element and the end of its
\* try block
SettingUp == \E i \in DOMAIN starts : starts[i] \in {"loadModels", "getUserMedia"}

\* C16 as claimed: isInitializing is true exactly while a start() is
\* performing setup, for any sequence of start() and stop() calls, a start()
\* issued while another is in progress included.
C16_InitializingIffSettingUp == isInitializing <=> SettingUp

\* two start() calls overlap, the first has ended and the second is still
\* waiting for the camera while isInitializing is already false
C16_Witness ==
    /\ Len(starts) = 2
    /\ starts[1] = "done"
    /\ starts[2] = "getUserMedia"
    /\ ~isInitializing

\* -------------------------------------------------------------------- C17
\* C17 as claimed: once stop() has returned and until start() is next
\* invoked, faceDetected is false and no step starts a capture-and-send,
\* also when a detection was pending as stop() ran and a request is armed.
C17_QuietAfterStop ==
    /\ [](stopped => ~faceDetected)
    /\ [][stopped => ~CaptureStarts]_vars

\* stop() has returned, every start() has ended and no interval is left, and
\* the detection that was pending as stop() ran has reported a face; the
\* request that was made is no longer armed: it was captured
C17_Witness ==
    /\ stopped
    /\ timers = {}
    /\ \A i \in DOMAIN starts : starts[i] = "done"
    /\ faceDetected
    /\ detections = 0
    /\ captureCompleter = NoCompleter
    /\ \E p \in Promises : InFlight(p) \/ Settled(p)

\* -------------------------------------------------------------------- C18
\* the live resources a handle points to
Held(handle) == IF handle = NoHandle THEN {} ELSE {handle}

\* C18 as claimed: at most one interval is scheduled and at most one
\* acquired stream is live, and detectionInterval and stream are exactly
\* those live resources, for any sequence of start() and stop() calls.
C18_HandlesAreTheLiveResources ==
    /\ Cardinality(timers) <= 1
    /\ Cardinality(tracks) <= 1
    /\ timers = Held(detectionInterval)
    /\ tracks = Held(stream)

\* start() was called twice without stop() and both calls succeeded: two
\* intervals fire and two streams are live, the handles name the second
C18_Witness ==
    /\ ~stopped
    /\ timers = {1, 2} /\ tracks = {1, 2}
    /\ detectionInterval = 2 /\ stream = 2

\* -------------------------------------------------------------------- C19
\* a step of a start(): the call itself or one of its continuations
StartStep == start \/ starts' # starts

\* a capture fails in this step: it rejects a promise
CaptureFails ==
    \E p \in Promises : promises[p].status = "pending" /\ promises'[p].status = "rejected"

\* a capture-and-send succeeds in this step: it resolves a promise
CaptureSucceeds ==
    \E p \in Promises : promises[p].status = "pending" /\ promises'[p].status = "resolved"

\* C19: the error channel goes back to null only in a start() that finds a
\* video element; only steps of a start() and failing captures write it;
\* loginWithFace(), signupWithFace(), stop(), the poll ticks (fired, answered
\* without a failing capture, or rejected) and a successful capture-and-send
\* leave it as it is.
C19_ErrorResetOnlyByStart ==
    /\ [][error # "null" /\ error' = "null" => start /\ videoRef]_vars
    /\ [][error' # error => StartStep \/ CaptureFails]_vars
    /\ [][\/ loginWithFace
          \/ \E customFields \in CustomFields : signupWithFace(customFields)
          \/ stop
          \/ runDetection
          \/ detectAllFacesRejects
          \/ /\ \E n \in 0..MaxFaces, imageBase64 \in Images :
                   detectAllFacesResolves(n, imageBase64)
             /\ ~CaptureFails
          \/ CaptureSucceeds
          => error' = error]_vars

\* start() ran once; the first capture failed at the network and its message
\* is still on the error channel after the later capture was resolved
C19_Witness ==
    /\ Len(starts) = 1
    /\ \E p, q \in Promises :
          /\ q < p
          /\ promises[q].status = "rejected"
          /\ promises[p].status = "resolved"
          /\ error = promises[q].value.message
          /\ error \in NetworkErrors

====
